---- MODULE Spec2Model ----
(***************************************************************************)
(* The observation - inference - actuation control loop of the pi0         *)
(* integration (src/lerobot/pi0-integration): the three mode functions of  *)
(* main.py, apply_robot_action / apply_trajectory / apply_single_action    *)
(* and the action mapper of motor_control.py, capture_robot_data and the   *)
(* normaliser of robot_interface.py, send_to_pi0 of pi0_client.py.         *)
(*                                                                         *)
(* Numbers.  A raw policy value a is held as the integer a * RawScale, a   *)
(* commanded position p as the integer p * CmdScale (CmdScale is twice     *)
(* RawScale, so the denormalisation 0.5*(a+1)*(max-min)+min is exact).     *)
(* Time is held in ticks of 1/TicksPerSecond seconds.  A raw joint reading *)
(* is an integer in hardware units; a normalised reading n is the exact    *)
(* fraction <<num, den>> with n = num / den; den = 0 stands for the nan or *)
(* inf of a division by zero.  An image is its shape and where its pixels  *)
(* come from.                                                              *)
(***************************************************************************)
EXTENDS Integers, Sequences, FiniteSets, TLC

\* ------------------------------------------------------------------ bounds
MaxSteps == 2
MaxCycles == 2
RawScale == 2
TicksPerSecond == 2
\* How far outside its range a raw joint reading is tried.
MaxMagnitude == 1000

\* Ports, motors or prompt lines a motor tool goes through.
MaxPasses == 2

\* Baudrates in a brand's series table.
MaxBaudrates == 2

\* Motors on a bus: ids that answer a scan, motors of a progressive test.
MaxMotors == 2

CmdScale == 2 * RawScale

\* Lengths L of one action step that the model tries.
StepLens == {5, 6, 7}
\* Values of --control-hz and of --hz that the model tries (1/hz is a whole
\* number of ticks for each non-zero one).
ControlHzValues == {-1, 0, 1}
HzValues == {-1, 0, 1}
NumTrajectoriesValues == {-1, 0, 1, 2}
\* Work time of one step, in ticks: none, some, more than one period.
ElapsedValues == {0, 1, TicksPerSecond + 1}

\* ------------------------------------------------------- program constants
\* motor_control.py:6-9 and :12-15, in hardware units.
JOINT_ACTION_RANGES ==
    [min |-> <<-1, -1, -200, -200, -10>>, max |-> <<1, 200, 10, 10, 10>>]

GRIPPER_ACTION_RANGES == [min |-> <<0>>, max |-> <<50>>]

\* robot_interface.py:10-13 and :15-18, in hardware units.
JOINT_POSITION_RANGES ==
    [min |-> <<-1, -1, -200, -200, -10>>, max |-> <<1, 200, 10, 10, 10>>]

GRIPPER_POSITION_RANGES == [min |-> <<0>>, max |-> <<50>>]

\* argparse default of --num-trajectories (main.py:24).
DefaultNumTrajectories == 3

\* Length of the command vector: mapped_action = np.zeros(6)
\* (motor_control.py:67).
CommandLen == 6

\* ------------------------------------------------------------------ helpers
Max(a, b) == IF a >= b THEN a ELSE b

Min(a, b) == IF a <= b THEN a ELSE b

\* ------------------------------------------------------------------- state
VARIABLES
    mode, hz, control_hz, num_trajectories, follower_arms, observation_state,
    camera_frames, position_ranges,
    pc, exc, propagating, robot, trajectory_count, choice, cycles,
    observation, response, display_result,
    outcome, i, j, success, num_motors, step_duration, positions_array,
    last_error, elapsed, sleep_time,
    now, step_start_time, work, late,
    writeLog, returns, failure, requests

\* A motor tool of src/lerobot/scripts: which one runs, its --brand and
\* --model, the number of passes it has to make, its position, the passes
\* made, the connect() calls issued, whether it has found the brand or the
\* model unsupported, and how the process ended.
VARIABLES
    tool, brand, model, passes, tool_pc, rounds, connects, rejected,
    exit_status

\* The buses of one scan_motors_on_port call: its position, whether the
\* scanner bus is connected, the per-motor buses that are connected, the
\* baudrates still to try, the ids found at the current baudrate and still
\* to read, and the results list.
VARIABLES
    scan_pc, motor_bus_connected, specific_connected, baudrates_left,
    present_ids, results

\* One call of progressive_motor_test: its position, len(motor_ids), the
\* loop variable num_motors of the round (the size of test_motors), the read
\* attempts made in the round, the round whose read last bound `positions`
\* (0: unbound), whether the round's bus is connected, and the bus calls
\* made so far.
VARIABLES
    test_pc, motor_ids, test_motors, attempt, positions, test_connected,
    bus_calls

\* The session with the robot: the prompts trajectory_mode has issued, the
\* robot's is_connected flag, and the calls of robot.disconnect() made.
VARIABLES
    prompts, is_connected, disconnects

\* The module-level range tables of robot_interface.py as shipped.
ShippedRanges ==
    [joint |-> JOINT_POSITION_RANGES, gripper |-> GRIPPER_POSITION_RANGES]

\* --------------------------------------------------------------- normaliser
\* np.clip(x, lo, hi): minimum(maximum(x, lo), hi).
Clip_None(x, lo, hi) == x

Clip_LowerOnly(x, lo, hi) == Max(x, lo)

Clip(x, lo, hi) == Min(Max(x, lo), hi)

\* 2.0 * (clipped - min) / (max - min) - 1.0 as the fraction <<num, den>>.
MinMax_ZeroToOne(clipped, lo, hi) == <<clipped - lo, hi - lo>>

MinMax(clipped, lo, hi) == <<2 * (clipped - lo) - (hi - lo), hi - lo>>

normalize_joint_position(joint_position) ==
    [k \in 1..Len(joint_position) |->
        LET min_val == position_ranges.joint.min[k]
            max_val == position_ranges.joint.max[k]
            clipped == Clip(joint_position[k], min_val, max_val)
        IN  MinMax(clipped, min_val, max_val)]

normalize_gripper_position(gripper_position) ==
    LET min_val == position_ranges.gripper.min[1]
        max_val == position_ranges.gripper.max[1]
        clipped == Clip(gripper_position[1], min_val, max_val)
    IN  <<MinMax(clipped, min_val, max_val)>>

\* ----------------------------------------------------------- action mapper
denormalize_joint_actions_Reversed(normalized_actions) ==
    [k \in 1..Len(normalized_actions) |->
        (normalized_actions[Len(normalized_actions) + 1 - k] + RawScale)
            * (JOINT_ACTION_RANGES.max[k] - JOINT_ACTION_RANGES.min[k])
        + CmdScale * JOINT_ACTION_RANGES.min[k]]

denormalize_joint_actions_Clamped(normalized_actions) ==
    [k \in 1..Len(normalized_actions) |->
        (Clip(normalized_actions[k], -RawScale, RawScale) + RawScale)
            * (JOINT_ACTION_RANGES.max[k] - JOINT_ACTION_RANGES.min[k])
        + CmdScale * JOINT_ACTION_RANGES.min[k]]

denormalize_joint_actions(normalized_actions) ==
    [k \in 1..Len(normalized_actions) |->
        (normalized_actions[k] + RawScale)
            * (JOINT_ACTION_RANGES.max[k] - JOINT_ACTION_RANGES.min[k])
        + CmdScale * JOINT_ACTION_RANGES.min[k]]

denormalize_gripper_action(normalized_action) ==
    (normalized_action + RawScale)
        * (GRIPPER_ACTION_RANGES.max[1] - GRIPPER_ACTION_RANGES.min[1])
    + CmdScale * GRIPPER_ACTION_RANGES.min[1]

\* The same two functions on exact fractions: 0.5 * (n + 1) * (max - min)
\* + min of n = f[1] / f[2] is the fraction <<num, 2 * f[2]>>.
Denormalized_NoOffset(f, min_val, max_val) ==
    <<(f[1] + f[2]) * (max_val - min_val), 2 * f[2]>>

Denormalized(f, min_val, max_val) ==
    <<(f[1] + f[2]) * (max_val - min_val) + 2 * f[2] * min_val, 2 * f[2]>>

denormalize_joint_fractions(normalized_actions) ==
    [k \in 1..Len(normalized_actions) |->
        Denormalized(normalized_actions[k], JOINT_ACTION_RANGES.min[k],
                     JOINT_ACTION_RANGES.max[k])]

denormalize_gripper_fraction(normalized_action) ==
    Denormalized(normalized_action, GRIPPER_ACTION_RANGES.min[1],
                 GRIPPER_ACTION_RANGES.max[1])

\* Index (1-based) of the gripper value: pi0_action[6] if len > 6 else [5].
GripperIndex_Sixth(pi0_action) == 6

GripperIndex_Last(pi0_action) == Max(6, Len(pi0_action))

GripperIndex(pi0_action) == IF Len(pi0_action) > 6 THEN 7 ELSE 6

\* Whether map_pi0_to_so100_actions raises IndexError on this step.
MapRaises(pi0_action) == GripperIndex(pi0_action) > Len(pi0_action)

map_pi0_to_so100_actions(pi0_action) ==
    LET normalized_arm_joints == SubSeq(pi0_action, 1, 5)
        normalized_gripper == pi0_action[GripperIndex(pi0_action)]
    IN  denormalize_joint_actions(normalized_arm_joints)
            \o <<denormalize_gripper_action(normalized_gripper)>>

\* ------------------------------------------------------------------ inputs
\* Two trajectories of N steps of length L: all zeros, and a ramp around 0
\* in steps of 0.5 whose values differ from channel to channel and from step
\* to step (it leaves [-1, 1] at both ends).
Patterns == {"zero", "ramp"}

Trajectory(L, N, p) ==
    [k \in 1..N |->
        [c \in 1..L |->
            IF p = "zero" THEN 0 ELSE ((c + k - 5) * RawScale) \div 2]]

NoActions == [has_actions |-> FALSE, actions |-> <<>>]

\* The responses of the inference service: no 'actions' key, or a 2-D array
\* of 0..MaxSteps rows, all of one length.
Responses ==
    {NoActions} \cup
    { [has_actions |-> TRUE, actions |-> Trajectory(c[1], c[2], c[3])] :
        c \in StepLens \X (0..MaxSteps) \X Patterns }

\* robot.follower_arms: the motor count of each arm, in enumeration order
\* (the SO100 has one arm of 6 motors).
ArmConfigs == {<<>>, <<0>>, <<2>>, <<6>>, <<6, 6>>, <<7, 2>>}

Modes == {"single", "trajectory", "continuous", "camera"}

NoFailure == [step |-> -1, writes |-> 0]

\* observation.state of the control loop's runs: 5 joints and the gripper.
RestState == <<0, 100, -50, 0, 0, 25>>

\* Camera names of the robot: the two that capture_robot_data reads and
\* one that it does not.
CameraNames == {"laptop", "phone", "top"}

\* A frame as the camera delivers it, and default_shape of process_images.
FrameShape == <<480, 640, 3>>

DefaultShape == <<224, 224, 3>>

NoImage == [shape |-> <<>>, pixels |-> "none"]

NoObservation ==
    [id |-> 0, joint_position |-> <<>>, gripper_position |-> <<>>,
     exterior_image_1_left |-> NoImage, wrist_image_left |-> NoImage,
     joint_velocity |-> <<>>, gripper_velocity |-> <<>>, prompt |-> ""]

\* img.resize((default_shape[0], default_shape[1])) and np.array(img): a
\* PIL size is (width, height), the array is height x width x channels.
Resized(img, size) ==
    [shape |-> <<size[2], size[1], img.shape[3]>>, pixels |-> img.pixels]

process_images_Unresized(images, camera_name) ==
    IF camera_name \in DOMAIN images
    THEN images[camera_name]
    ELSE [shape |-> DefaultShape, pixels |-> "zeros"]

process_images(images, camera_name) ==
    IF camera_name \in DOMAIN images
    THEN Resized(images[camera_name], <<DefaultShape[1], DefaultShape[2]>>)
    ELSE [shape |-> DefaultShape, pixels |-> "zeros"]

\* np.zeros_like(a).
zeros_like(a) == [k \in 1..Len(a) |-> <<0, 1>>]

\* The observation capture_robot_data builds, whatever the display callback
\* returned (its return value is only printed).
ObservationFor_StopBlanks(returned, built) ==
    IF returned = "stop" THEN NoObservation ELSE built

ObservationFor(returned, built) == built

\* capture_robot_data from the robot's reading to the observation dict.
Assembled(id, returned) ==
    LET joint_positions == observation_state
        n == Len(joint_positions)
        gripper_position == SubSeq(joint_positions, n, n)
        joint_position == SubSeq(joint_positions, 1, n - 1)
        normalized_joint_position == normalize_joint_position(joint_position)
        normalized_gripper_position ==
            normalize_gripper_position(gripper_position)
        images == [cam_name \in camera_frames |->
                      [shape |-> FrameShape, pixels |-> cam_name]]
        wrist_image == process_images(images, "laptop")
        exterior_image == process_images(images, "phone")
    IN  ObservationFor(returned,
            [id |-> id,
             joint_position |-> normalized_joint_position,
             gripper_position |-> normalized_gripper_position,
             exterior_image_1_left |-> exterior_image,
             wrist_image_left |-> wrist_image,
             joint_velocity |-> zeros_like(normalized_joint_position),
             gripper_velocity |-> zeros_like(normalized_gripper_position),
             prompt |-> "prompt"])

\* ------------------------------------------------------------ state groups
\* The arguments, the robot's arms, the reading of its joint sensors and
\* the cameras that deliver a frame (held fixed over a run), and the range
\* tables of the normaliser.
cfg == <<mode, hz, control_hz, num_trajectories, follower_arms,
         observation_state, camera_frames, position_ranges>>

main == <<exc, propagating, robot, trajectory_count, choice, cycles>>

\* The locals of the mode function.
main_locals == <<robot, trajectory_count, choice, cycles>>

\* The observation and the response of the cycle, and what the display
\* callback returned in it.
data == <<observation, response, display_result>>

\* time.time() since apply_trajectory was entered; the reading taken at the
\* start of the current step; the work time of the last paced step; the
\* time by which the steps paced so far overran their periods.
clock == <<now, step_start_time, work, late>>

exec == <<outcome, i, j, success, num_motors, step_duration, positions_array,
          last_error, elapsed, sleep_time, clock>>

\* History: the writes issued since the last inference response; the
\* <<returned value, outcome>> pairs of the executor's returns so far; the
\* first failed write since the last inference response; the observation
\* ids of the inference requests sent so far.
hist == <<writeLog, returns, failure, requests>>

scan == <<scan_pc, motor_bus_connected, specific_connected, baudrates_left,
          present_ids, results>>

test == <<test_pc, motor_ids, test_motors, attempt, positions,
          test_connected, bus_calls>>

tools == <<tool, brand, model, passes, tool_pc, rounds, connects, rejected,
           exit_status, scan, test>>

session == <<prompts, is_connected, disconnects>>

program == <<cfg, pc, main, data, exec, hist, session>>

vars == <<program, tools>>

\* No scan_motors_on_port call is under way.
NoScan ==
    /\ scan_pc = "idle"
    /\ motor_bus_connected = FALSE
    /\ specific_connected = {}
    /\ baudrates_left = 0
    /\ present_ids = <<>>
    /\ results = <<>>

\* No progressive_motor_test call is under way.
NoTest ==
    /\ test_pc = "idle"
    /\ motor_ids = 0
    /\ test_motors = 0
    /\ attempt = 0
    /\ positions = 0
    /\ test_connected = FALSE
    /\ bus_calls = <<>>

\* No motor tool runs beside the control program.
NoTool ==
    /\ tool = "none"
    /\ brand = "feetech"
    /\ model = "sts3215"
    /\ passes = 0
    /\ tool_pc = "done"
    /\ rounds = 0
    /\ connects = 0
    /\ rejected = FALSE
    /\ exit_status = "none"
    /\ NoScan
    /\ NoTest

Init ==
    /\ NoTool
    /\ mode \in Modes
    \* args.hz is read by continuous_control_mode only.
    /\ hz \in (IF mode = "continuous" THEN HzValues ELSE {1})
    /\ control_hz \in ControlHzValues
    /\ num_trajectories \in
           (IF mode = "trajectory" THEN NumTrajectoriesValues
                                   ELSE {DefaultNumTrajectories})
    /\ follower_arms \in ArmConfigs
    /\ observation_state = RestState
    /\ camera_frames = {"laptop", "phone"}
    /\ position_ranges = ShippedRanges
    /\ pc = "init"
    /\ exc = "none"
    /\ propagating = FALSE
    /\ robot = "None"
    /\ prompts = 0
    /\ is_connected = FALSE
    /\ disconnects = 0
    /\ trajectory_count = 0
    /\ choice = ""
    /\ cycles = 0
    /\ observation = NoObservation
    /\ response = NoActions
    /\ display_result = "none"
    /\ outcome = "Idle"
    /\ i = 0
    /\ j = 0
    /\ success = FALSE
    /\ num_motors = 0
    /\ step_duration = 0
    /\ positions_array = <<>>
    /\ last_error = "none"
    /\ elapsed = 0
    /\ sleep_time = 0
    /\ now = 0
    /\ step_start_time = 0
    /\ work = 0
    /\ late = 0
    /\ writeLog = <<>>
    /\ returns = {}
    /\ failure = NoFailure
    /\ requests = <<>>

\* ---------------------------------------------------------------- exceptions
\* An exception leaves the try block of the mode function: only
\* continuous_control_mode has an except clause, and only for
\* KeyboardInterrupt; every mode runs its finally block.
Raise(e) ==
    /\ exc' = e
    /\ propagating' = TRUE
    /\ pc' = IF mode = "continuous" /\ e = "KeyboardInterrupt"
                THEN "except" ELSE "finally"

\* `except Exception` of apply_single_action: KeyboardInterrupt is a
\* BaseException and is not caught by it.
Caught_Propagates(e) == FALSE

Caught(e) == e # "KeyboardInterrupt"

\* What apply_trajectory / apply_robot_action return: they have no return
\* value, whatever the outcome.
ReturnValue_Outcome(o) == o

ReturnValue(o) == "None"

\* The loop of apply_trajectory stops after a failed step.
StopsAfter_Never(ok) == FALSE

StopsAfter(ok) == ~ok

\* Positions of the mode function inside its try block.
TryBlock == {"init", "settle", "loop", "preview", "capture", "infer", "apply",
             "step", "write", "pace", "after", "confirm"}

\* Positions inside apply_trajectory's for loop.
InTrajectory == {"step", "write", "pace"}

\* ------------------------------------------------------------ mode functions
\* create_pi0_client, and initialize_robot up to robot.connect()
\* (main.py:51-56, :81-88, :122-129; robot_interface.py:49-57): the robot is
\* connected, or connect() raises.
InitializeRobot ==
    /\ pc = "init"
    /\ \/ /\ is_connected' = TRUE
          /\ pc' = "settle"
          /\ UNCHANGED <<exc, propagating>>
       \/ /\ Raise("ConnectError")
          /\ UNCHANGED is_connected
    /\ UNCHANGED <<cfg, tools, main_locals, prompts, disconnects, data, exec,
                   hist>>

\* time.sleep(1) of initialize_robot, its return, and the assignment of the
\* result to the mode function's `robot`, which was None until now.
Stabilize ==
    /\ pc = "settle"
    /\ robot' = "connected"
    /\ pc' = "loop"
    /\ UNCHANGED <<cfg, tools, session, exc, propagating, trajectory_count,
                   choice, cycles, data, exec, hist>>

\* Whether trajectory_mode goes on after a trajectory (main.py:90, :103).
MoreTrajectories_Inclusive(count) ==
    num_trajectories = -1 \/ count <= num_trajectories

MoreTrajectories(count) ==
    num_trajectories = -1 \/ count < num_trajectories

\* The body of camera_test_mode's loop: the frames of robot.cameras are
\* read and shown; no frame at all, or q within the second the window
\* waits, leaves the loop.  robot.capture_observation may raise.
Preview ==
    /\ pc = "preview"
    /\ \/ /\ IF camera_frames = {}
             THEN pc' = "finally"
             ELSE \E key \in {"q", "none"} :
                     pc' = IF key = "q" THEN "finally" ELSE "loop"
          /\ UNCHANGED <<exc, propagating>>
       \/ Raise("CaptureError")
    /\ UNCHANGED <<cfg, tools, session, main_locals, data, exec, hist>>

\* The loop head: `while True` (continuous), the trajectory_count test
\* (trajectory); single mode has one straight pass.
WhileTest ==
    /\ pc = "loop"
    /\ IF mode = "camera"
       THEN pc' = "preview"
       ELSE IF mode = "trajectory" /\ ~MoreTrajectories(trajectory_count)
       THEN pc' = "finally"
       ELSE /\ cycles < MaxCycles
            /\ pc' = "capture"
    /\ UNCHANGED <<cfg, tools, session, main, data, exec, hist>>

\* capture_robot_data: the observation of this cycle (or the robot raises).
\* The last element of observation.state is the gripper, the others the
\* joints; display_camera_feeds returns True, or False when the user
\* pressed q.
Capture ==
    /\ pc = "capture"
    /\ \/ /\ cycles' = cycles + 1
          /\ \E returned \in {"continue", "stop"} :
                /\ display_result' = returned
                /\ observation' = Assembled(cycles + 1, returned)
          /\ pc' = "infer"
          /\ UNCHANGED <<exc, propagating>>
       \/ /\ Raise("CaptureError")
          /\ UNCHANGED <<cycles, observation, display_result>>
    /\ UNCHANGED <<cfg, tools, session, robot, trajectory_count, choice, response, exec,
                   hist>>

\* The observation send_to_pi0 passes to client.infer: the one it was
\* given (main.py:138, pi0_client.py:30).
RequestPayload_Previous(obs) == IF obs.id > 1 THEN obs.id - 1 ELSE obs.id

RequestPayload(obs) == obs.id

\* client.infer raises: send_to_pi0 has no try, the mode functions no
\* except clause for it.
OnTransportError_Swallowed ==
    /\ exc' = "TransportError"
    /\ propagating' = FALSE
    /\ pc' = "apply"

OnTransportError == Raise("TransportError")

\* send_to_pi0: one blocking round trip; the response, or a transport error.
Infer ==
    /\ pc = "infer"
    /\ requests' = Append(requests, RequestPayload(observation))
    /\ \/ /\ \E r \in Responses : response' = r
          /\ outcome' = "Idle"
          /\ writeLog' = <<>>
          /\ failure' = NoFailure
          /\ pc' = "apply"
          /\ UNCHANGED <<exc, propagating>>
       \/ /\ OnTransportError
          /\ UNCHANGED <<response, outcome, writeLog, failure>>
    /\ UNCHANGED <<cfg, tools, session, robot, trajectory_count, choice, cycles, observation,
                   display_result, i, j, success, num_motors, step_duration, positions_array,
                   last_error, elapsed, sleep_time, clock, returns>>

\* `'actions' not in action`, the first test of apply_robot_action.
NoActionsKey_Unchecked(r) == FALSE

NoActionsKey(r) == ~r.has_actions

\* apply_robot_action up to the first step of apply_trajectory.
Apply ==
    /\ pc = "apply"
    /\ IF NoActionsKey(response)
       THEN /\ pc' = "after"
            /\ UNCHANGED <<exc, propagating, outcome, i, num_motors,
                           step_duration, returns>>
       ELSE IF ~response.has_actions
       THEN /\ Raise("KeyError")
            /\ UNCHANGED <<outcome, i, num_motors, step_duration, returns>>
       ELSE IF Len(response.actions) = 0
       THEN /\ pc' = "after"
            /\ outcome' = "Completed"
            /\ returns' =
                 returns \cup {<<ReturnValue("Completed"), "Completed">>}
            /\ UNCHANGED <<exc, propagating, i, num_motors, step_duration>>
       ELSE /\ num_motors' =
                 IF follower_arms = <<>> THEN 0 ELSE follower_arms[1]
            /\ IF control_hz = 0
               THEN /\ Raise("ZeroDivisionError:step_duration")
                    /\ UNCHANGED <<outcome, i, step_duration>>
               ELSE /\ step_duration' = TicksPerSecond \div control_hz
                    /\ outcome' = "Running"
                    /\ i' = 0
                    /\ pc' = "step"
                    /\ UNCHANGED <<exc, propagating>>
            /\ UNCHANGED returns
    /\ UNCHANGED <<cfg, tools, session, robot, trajectory_count, choice, cycles, data, j, success,
                   positions_array, last_error, elapsed, sleep_time, clock,
                   writeLog, failure, requests>>

\* step_start_time = time.time() (motor_control.py:138).
StepStartTime_Scheduled(t) == i * step_duration

StepStartTime(t) == t

\* `if num_motors == 0: ... return False` of apply_single_action
\* (motor_control.py:91-93), before the mapper is called.
NoMotors_Unchecked(n) == FALSE

NoMotors(n) == n = 0

\* The head of one iteration of apply_trajectory and apply_single_action up
\* to its write loop: the motor-count test and the action mapper, which is
\* called outside the try block.
Step ==
    /\ pc = "step"
    /\ step_start_time' = StepStartTime(now)
    /\ last_error' = "none"
    /\ IF NoMotors(num_motors)
       THEN /\ success' = FALSE
            /\ pc' = "pace"
            /\ UNCHANGED <<exc, propagating, j, positions_array>>
       ELSE IF MapRaises(response.actions[i + 1])
       THEN /\ Raise("IndexError")
            /\ UNCHANGED <<success, j, positions_array>>
       ELSE /\ positions_array' =
                 map_pi0_to_so100_actions(response.actions[i + 1])
            /\ j' = 0
            /\ pc' = "write"
            /\ UNCHANGED <<exc, propagating, success>>
    /\ UNCHANGED <<cfg, tools, session, robot, trajectory_count, choice, cycles, data, outcome, i,
                   num_motors, step_duration, elapsed, sleep_time, now, work,
                   late, hist>>

\* The arm the write loop of apply_single_action serves: it returns from
\* inside `for name in robot.follower_arms`, during the first arm.
ArmsServed_All(arms) == 1..Len(arms)

ArmsServed(arms) == IF arms = <<>> THEN {} ELSE {1}

\* zip(motors.keys(), positions_array): the writes of one arm in one step.
WritesPerArm_JointsOnly(arm) ==
    Min(follower_arms[arm], Len(positions_array) - 1)

WritesPerArm(arm) == Min(follower_arms[arm], Len(positions_array))

\* The flat position j of the write loop as <<arm, motor>>.
RECURSIVE WriteTarget(_, _)
WriteTarget(arm, k) ==
    IF k < WritesPerArm(arm) THEN <<arm, k>>
    ELSE WriteTarget(arm + 1, k - WritesPerArm(arm))

RECURSIVE TotalWrites(_)
TotalWrites(arms) ==
    IF arms = {} THEN 0
    ELSE LET a == CHOOSE x \in arms : TRUE
         IN  WritesPerArm(a) + TotalWrites(arms \ {a})

\* The writes on record once a write has raised: `except Exception` prints
\* the error and returns False, it writes nothing.
AfterFailedWrite_Restores(log) ==
    log \o [m \in 1..j |-> [cycle |-> cycles, step |-> i, arm |-> 1,
                             motor |-> j - m, value |-> 0]]

AfterFailedWrite(log) == log

\* One robot.follower_arms[name].write("Goal_Position", value, motor_name):
\* it succeeds, or it raises.
Write ==
    /\ pc = "write"
    /\ \/ /\ LET t == WriteTarget(1, j)
             IN  writeLog' = Append(writeLog,
                     [cycle |-> cycles, step |-> i, arm |-> t[1],
                      motor |-> t[2], value |-> positions_array[t[2] + 1]])
          /\ j' = j + 1
          /\ IF j + 1 = TotalWrites(ArmsServed(follower_arms))
             THEN /\ success' = TRUE
                  /\ pc' = "pace"
             ELSE UNCHANGED <<pc, success>>
          /\ UNCHANGED <<exc, propagating, last_error, failure>>
       \/ /\ IF Caught("WriteError")
             THEN /\ success' = FALSE
                  /\ last_error' = "WriteError"
                  /\ pc' = "pace"
                  /\ UNCHANGED <<exc, propagating>>
             ELSE /\ Raise("WriteError")
                  /\ UNCHANGED <<success, last_error>>
          /\ failure' = IF failure = NoFailure
                           THEN [step |-> i, writes |-> Len(writeLog)]
                           ELSE failure
          /\ writeLog' = AfterFailedWrite(writeLog)
          /\ UNCHANGED j
    /\ UNCHANGED <<cfg, tools, session, robot, trajectory_count, choice, cycles, data, outcome, i,
                   num_motors, step_duration, positions_array, elapsed,
                   sleep_time, clock, returns, requests>>

\* `if not success: ... break`: apply_trajectory and apply_robot_action
\* return to the mode function.
OnStepFailed_Raises ==
    /\ outcome' = "StepFailed"
    /\ Raise("RuntimeError")
    /\ UNCHANGED <<i, returns>>

OnStepFailed ==
    /\ outcome' = "StepFailed"
    /\ returns' = returns \cup {<<ReturnValue("StepFailed"), "StepFailed">>}
    /\ pc' = "after"
    /\ UNCHANGED <<i, exc, propagating>>

\* `for i, action in enumerate(trajectory)`: whether a step follows step k
\* of n.
HasNext_OffByOne(k, n) == k + 2 < n

HasNext(k, n) == k + 1 < n

\* elapsed = time.time() - step_start_time (motor_control.py:146).
Elapsed(t, t_start) == t - t_start

\* sleep_time = max(0, step_duration - elapsed) (motor_control.py:149).
SleepTime_Unpaced(step_dur, el) == 0

SleepTime(step_dur, el) == Max(0, step_dur - el)

\* time.sleep(sleep_time) stands before `if not success`
\* (motor_control.py:152-160): what an iteration sleeps, whatever
\* apply_single_action returned.
Slept_FailureFirst(ok, t) == IF ok THEN t ELSE 0

Slept(ok, t) == t

\* The rest of one iteration of apply_trajectory: the pacing sleep, then the
\* failure test, then the next step or the return to the mode function.
Pace ==
    /\ pc = "pace"
    /\ \E e \in ElapsedValues :
          /\ elapsed' = Elapsed(now + e, step_start_time)
          /\ sleep_time' = SleepTime(step_duration, elapsed')
          /\ now' = now + e + Slept(success, sleep_time')
          /\ work' = e
          /\ late' = late + Max(0, e - Max(0, step_duration))
    /\ IF StopsAfter(success)
       THEN OnStepFailed
       ELSE IF HasNext(i, Len(response.actions))
       THEN /\ i' = i + 1
            /\ pc' = "step"
            /\ UNCHANGED <<exc, propagating, outcome, returns>>
       ELSE /\ outcome' = "Completed"
            /\ returns' =
                 returns \cup {<<ReturnValue("Completed"), "Completed">>}
            /\ pc' = "after"
            /\ UNCHANGED <<exc, propagating, i>>
    /\ UNCHANGED <<cfg, tools, session, robot, trajectory_count, choice, cycles, data, j,
                   success, num_motors, step_duration, positions_array,
                   last_error, step_start_time, writeLog, failure, requests>>

\* What follows apply_robot_action in the mode function (the locals of the
\* executor are gone).
After ==
    /\ pc = "after"
    /\ i' = 0
    /\ j' = 0
    /\ success' = FALSE
    /\ num_motors' = 0
    /\ step_duration' = 0
    /\ positions_array' = <<>>
    /\ last_error' = "none"
    /\ elapsed' = 0
    /\ sleep_time' = 0
    /\ now' = 0
    /\ step_start_time' = 0
    /\ work' = 0
    /\ late' = 0
    /\ IF mode = "single"
       THEN /\ pc' = "finally"
            /\ UNCHANGED <<exc, propagating, trajectory_count>>
       ELSE IF mode = "trajectory"
       THEN /\ trajectory_count' = trajectory_count + 1
            /\ pc' = IF MoreTrajectories(trajectory_count + 1)
                        THEN "confirm" ELSE "loop"
            /\ UNCHANGED <<exc, propagating>>
       ELSE /\ IF hz = 0
               THEN Raise("ZeroDivisionError:cycle_time")
               ELSE /\ pc' = "loop"
                    /\ UNCHANGED <<exc, propagating>>
            /\ UNCHANGED trajectory_count
    /\ display_result' = "none"
    /\ UNCHANGED <<cfg, tools, session, robot, choice, cycles, observation, response, outcome,
                   hist>>

\* What a user types at the prompt.
Answers == {"y", "Y", "yes", "n"}

\* str.lower on these answers.
lower(c) == IF c = "Y" THEN "y" ELSE c

\* `if choice.lower() != 'y': break`.
Continues_Always(c) == TRUE

Continues(c) == lower(c) = "y"

\* input("Execute another trajectory? (y/n): ") of trajectory_mode.
Confirm ==
    /\ pc = "confirm"
    /\ prompts' = prompts + 1
    /\ \E c \in Answers :
          /\ choice' = c
          /\ pc' = IF Continues(c) THEN "loop" ELSE "finally"
    /\ UNCHANGED <<cfg, tools, is_connected, disconnects, exc, propagating,
                   robot, trajectory_count, cycles, data, exec, hist>>

\* Ctrl+C: KeyboardInterrupt is raised in the main thread wherever it is.
Interrupt ==
    /\ pc \in TryBlock
    /\ Raise("KeyboardInterrupt")
    /\ UNCHANGED <<cfg, tools, session, robot, trajectory_count, choice, cycles, data, exec, hist>>

\* `except KeyboardInterrupt` of continuous_control_mode, outside the loop.
Except_Resumes ==
    /\ pc = "except"
    /\ propagating' = FALSE
    /\ pc' = "loop"
    /\ UNCHANGED <<cfg, tools, session, exc, robot, trajectory_count, choice, cycles, data, exec,
                   hist>>

Except ==
    /\ pc = "except"
    /\ propagating' = FALSE
    /\ pc' = "finally"
    /\ UNCHANGED <<cfg, tools, session, exc, robot, trajectory_count, choice, cycles, data, exec,
                   hist>>

\* The finally block: cleanup_display, then disconnect if connected.
Finally ==
    /\ pc = "finally"
    /\ IF robot # "None" /\ is_connected
       THEN /\ robot' = "disconnected"
            /\ is_connected' = FALSE
            /\ disconnects' = disconnects + 1
       ELSE UNCHANGED <<robot, is_connected, disconnects>>
    /\ pc' = "done"
    /\ UNCHANGED <<cfg, tools, prompts, exc, propagating, trajectory_count, choice, cycles, data,
                   exec, hist>>

Next ==
    \/ InitializeRobot
    \/ Stabilize
    \/ WhileTest
    \/ Preview
    \/ Capture
    \/ Infer
    \/ Apply
    \/ Step
    \/ Write
    \/ Pace
    \/ After
    \/ Confirm
    \/ Interrupt
    \/ Except
    \/ Finally

Spec == Init /\ [][Next]_vars

\* ----------------------------------------------------- the normaliser alone
\* Raw readings of a channel of range [lo, hi]: far below, the two ends, a
\* value inside, far above.
RawReadings(lo, hi) ==
    {lo - MaxMagnitude, lo, lo + 1, hi, hi + MaxMagnitude}

\* observation.state: 5 joint readings and the gripper reading.
JointReadings(k) ==
    RawReadings(JOINT_POSITION_RANGES.min[k], JOINT_POSITION_RANGES.max[k])

SensedStates ==
    { <<q1, q2, q3, q4, q5, g>> :
        q1 \in JointReadings(1), q2 \in JointReadings(2),
        q3 \in JointReadings(3), q4 \in JointReadings(4),
        q5 \in JointReadings(5),
        g \in RawReadings(GRIPPER_POSITION_RANGES.min[1],
                          GRIPPER_POSITION_RANGES.max[1]) }

\* single_trajectory_mode about to capture, the robot connected: any
\* reading of the joint sensors.
NormInit ==
    /\ NoTool
    /\ mode = "single"
    /\ hz = 1
    /\ control_hz = 1
    /\ num_trajectories = DefaultNumTrajectories
    /\ follower_arms = <<6>>
    /\ observation_state \in SensedStates
    /\ camera_frames = {"laptop", "phone"}
    /\ position_ranges = ShippedRanges
    /\ pc = "capture"
    /\ exc = "none"
    /\ propagating = FALSE
    /\ robot = "connected"
    /\ prompts = 0
    /\ is_connected = TRUE
    /\ disconnects = 0
    /\ trajectory_count = 0
    /\ choice = ""
    /\ cycles = 0
    /\ observation = NoObservation
    /\ response = NoActions
    /\ display_result = "none"
    /\ outcome = "Idle"
    /\ i = 0
    /\ j = 0
    /\ success = FALSE
    /\ num_motors = 0
    /\ step_duration = 0
    /\ positions_array = <<>>
    /\ last_error = "none"
    /\ elapsed = 0
    /\ sleep_time = 0
    /\ now = 0
    /\ step_start_time = 0
    /\ work = 0
    /\ late = 0
    /\ writeLog = <<>>
    /\ returns = {}
    /\ failure = NoFailure
    /\ requests = <<>>

NormSpec == NormInit /\ [][Capture]_vars

\* ------------------------------------------------------ the assembler alone
\* single_trajectory_mode about to capture, the robot connected: any set
\* of cameras delivering a frame.
AssembleInit ==
    /\ NoTool
    /\ mode = "single"
    /\ hz = 1
    /\ control_hz = 1
    /\ num_trajectories = DefaultNumTrajectories
    /\ follower_arms = <<6>>
    /\ observation_state \in
           { <<q1, q2, RestState[3], RestState[4], RestState[5], g>> :
               q1 \in JointReadings(1), q2 \in JointReadings(2),
               g \in {RestState[6], GRIPPER_POSITION_RANGES.min[1]} }
    /\ camera_frames \in SUBSET CameraNames
    /\ position_ranges = ShippedRanges
    /\ pc = "capture"
    /\ exc = "none"
    /\ propagating = FALSE
    /\ robot = "connected"
    /\ prompts = 0
    /\ is_connected = TRUE
    /\ disconnects = 0
    /\ trajectory_count = 0
    /\ choice = ""
    /\ cycles = 0
    /\ observation = NoObservation
    /\ response = NoActions
    /\ display_result = "none"
    /\ outcome = "Idle"
    /\ i = 0
    /\ j = 0
    /\ success = FALSE
    /\ num_motors = 0
    /\ step_duration = 0
    /\ positions_array = <<>>
    /\ last_error = "none"
    /\ elapsed = 0
    /\ sleep_time = 0
    /\ now = 0
    /\ step_start_time = 0
    /\ work = 0
    /\ late = 0
    /\ writeLog = <<>>
    /\ returns = {}
    /\ failure = NoFailure
    /\ requests = <<>>

AssembleSpec == AssembleInit /\ [][Capture]_vars

\* ------------------------------------------- startup with other range tables
\* The shipped table with max lowered to min in joint channel k, or in the
\* gripper channel.
ZeroWidthJoint(k) ==
    [joint |->
        [min |-> JOINT_POSITION_RANGES.min,
         max |-> [c \in 1..5 |->
                     IF c = k THEN JOINT_POSITION_RANGES.min[c]
                              ELSE JOINT_POSITION_RANGES.max[c]]],
     gripper |-> GRIPPER_POSITION_RANGES]

ZeroWidthGripper ==
    [joint |-> JOINT_POSITION_RANGES,
     gripper |-> [min |-> GRIPPER_POSITION_RANGES.min,
                  max |-> GRIPPER_POSITION_RANGES.min]]

RangeTables ==
    {ShippedRanges, ZeroWidthGripper} \cup {ZeroWidthJoint(k) : k \in 1..5}

\* single_trajectory_mode from its start to the first observation, under
\* any of the range tables.
RangeInit ==
    /\ NoTool
    /\ mode = "single"
    /\ hz = 1
    /\ control_hz = 1
    /\ num_trajectories = DefaultNumTrajectories
    /\ follower_arms = <<6>>
    /\ observation_state \in
           { <<q1, q2, RestState[3], RestState[4], RestState[5], g>> :
               q1 \in JointReadings(1), q2 \in JointReadings(2),
               g \in {RestState[6], GRIPPER_POSITION_RANGES.min[1]} }
    /\ camera_frames = {"laptop", "phone"}
    /\ position_ranges \in RangeTables
    /\ pc = "init"
    /\ exc = "none"
    /\ propagating = FALSE
    /\ robot = "None"
    /\ prompts = 0
    /\ is_connected = FALSE
    /\ disconnects = 0
    /\ trajectory_count = 0
    /\ choice = ""
    /\ cycles = 0
    /\ observation = NoObservation
    /\ response = NoActions
    /\ display_result = "none"
    /\ outcome = "Idle"
    /\ i = 0
    /\ j = 0
    /\ success = FALSE
    /\ num_motors = 0
    /\ step_duration = 0
    /\ positions_array = <<>>
    /\ last_error = "none"
    /\ elapsed = 0
    /\ sleep_time = 0
    /\ now = 0
    /\ step_start_time = 0
    /\ work = 0
    /\ late = 0
    /\ writeLog = <<>>
    /\ returns = {}
    /\ failure = NoFailure
    /\ requests = <<>>

RangeNext ==
    \/ InitializeRobot
    \/ Stabilize
    \/ WhileTest
    \/ Capture
    \/ Finally

RangeSpec == RangeInit /\ [][RangeNext]_vars

\* ------------------------------------------------- the action mapper alone
\* Raw policy values the mapper is tried on: -1, a value inside (-1, 1), a
\* value above 1; and the lengths of one step.
MapRawValues == {-RawScale, 1, RawScale + 1}

MapStepLens == {5, 6, 7, 8}

RawSteps == UNION {[1..L -> MapRawValues] : L \in MapStepLens}

\* single_trajectory_mode at the first step of a one-step trajectory, under
\* the default pacing: any raw step, an arm of the SO100 or an arm with no
\* motors.
MapInit ==
    /\ NoTool
    /\ mode = "single"
    /\ hz = 1
    /\ control_hz = 1
    /\ num_trajectories = DefaultNumTrajectories
    /\ follower_arms \in {<<0>>, <<6>>}
    /\ observation_state = RestState
    /\ camera_frames = {"laptop", "phone"}
    /\ position_ranges = ShippedRanges
    /\ pc = "step"
    /\ exc = "none"
    /\ propagating = FALSE
    /\ robot = "connected"
    /\ prompts = 0
    /\ is_connected = TRUE
    /\ disconnects = 0
    /\ trajectory_count = 0
    /\ choice = ""
    /\ cycles = 1
    /\ observation = Assembled(1, "continue")
    /\ display_result = "continue"
    /\ \E pi0_action \in RawSteps :
           response = [has_actions |-> TRUE, actions |-> <<pi0_action>>]
    /\ outcome = "Running"
    /\ i = 0
    /\ j = 0
    /\ success = FALSE
    /\ num_motors = follower_arms[1]
    /\ step_duration = TicksPerSecond
    /\ positions_array = <<>>
    /\ last_error = "none"
    /\ elapsed = 0
    /\ sleep_time = 0
    /\ now = 0
    /\ step_start_time = 0
    /\ work = 0
    /\ late = 0
    /\ writeLog = <<>>
    /\ returns = {}
    /\ failure = NoFailure
    /\ requests = <<1>>

MapSpec == MapInit /\ [][Step]_vars

\* ------------------------------------------------------------ the motor tools
\* The scripts of src/lerobot/scripts: each is a program of its own that
\* takes a brand and a model, opens a motors bus and works on it.
Tools ==
    {"scan_robot", "get_motors_values", "read_all_motors",
     "diagnose_follower_motors", "progressive_tests"}

Brands == {"feetech", "dynamixel", "acme"}

Models == {"sts3215", "xl330-m077", "m-000"}

\* get_motor_bus_cls: the brands it returns classes for; any other brand
\* raises ValueError.  progressive_tests knows feetech only.
SupportedBrands(t) ==
    IF t = "progressive_tests" THEN {"feetech"} ELSE {"feetech", "dynamixel"}

\* MODEL_BAUDRATE_TABLE of the brand's bus module, as get_motor_bus_cls
\* returns it.
model_baudrate_table(b) ==
    IF b = "feetech" THEN {"sts3215"} ELSE {"xl330-m077"}

\* The tools that test `model not in model_baudrate_table` before they
\* build the bus: progressive_motor_test passes the model on untested.
ChecksModel(t) == t # "progressive_tests"

\* What the brand and the model are on the command line: read_all_motors
\* has them fixed in its main block.
ToolArguments(t) ==
    IF t = "read_all_motors" THEN {<<"feetech", "sts3215">>}
                             ELSE Brands \X Models

\* Passes of the tool: ports to scan, motors of the progressive test, the
\* 6 motors of both arms, and lines a user types at the prompt.
PassCounts(t) ==
    CASE t = "get_motors_values" -> {1}
      [] t = "read_all_motors" -> {12}
      [] OTHER -> 1..MaxPasses

\* Where the tool starts: diagnose_follower_motors at its prompt, the others
\* in the function that resolves the brand.
EntryPoint(t) == IF t = "diagnose_follower_motors" THEN "input" ELSE "brand"

\* The ValueError of an unsupported brand or model, by what the tool's main
\* block does with it: the prompt loop of diagnose_follower_motors catches
\* it as a mistyped number and prompts again, progressive_tests exits with
\* status 1, the others end with the traceback.
OnValueError(t) ==
    CASE t = "diagnose_follower_motors" -> [to |-> "input", status |-> "running"]
      [] t = "progressive_tests" -> [to |-> "done", status |-> "exit 1"]
      [] OTHER -> [to |-> "done", status |-> "ValueError"]

\* An unsupported model where the tool tests it: diagnose_follower_motors
\* prints an error and returns to the prompt, the others raise ValueError.
OnInvalidModel(t) ==
    IF t = "diagnose_follower_motors"
    THEN [to |-> "input", status |-> "running"]
    ELSE OnValueError(t)

\* Where a pass goes when its bus work is over.
AfterPass(t, done_passes) ==
    CASE t = "diagnose_follower_motors" -> "input"
      [] done_passes >= passes -> "done"
      [] t = "scan_robot" -> "brand"
      [] OTHER -> "connect"

\* The prompt loop of diagnose_follower_motors: 'quit' and Ctrl+C leave it,
\* a line that is no integer or no valid id prompts again, an id and a
\* target call set_motor_target_position.
Input ==
    /\ tool_pc = "input"
    /\ \E line \in {"quit", "KeyboardInterrupt", "invalid", "command"} :
          CASE line \in {"quit", "KeyboardInterrupt"} ->
                  /\ tool_pc' = "done"
                  /\ exit_status' = "returned"
                  /\ UNCHANGED rounds
            [] line = "invalid" ->
                  /\ rounds < passes
                  /\ rounds' = rounds + 1
                  /\ UNCHANGED <<tool_pc, exit_status>>
            [] OTHER ->
                  /\ rounds < passes
                  /\ rounds' = rounds + 1
                  /\ tool_pc' = "brand"
                  /\ UNCHANGED exit_status
    /\ UNCHANGED <<program, scan, test, tool, brand, model, passes, connects, rejected>>

\* get_motor_bus_cls(brand), the first statement of each tool's function.
GetMotorBusCls ==
    /\ tool_pc = "brand"
    /\ IF brand \in SupportedBrands(tool)
       THEN /\ tool_pc' = "model"
            /\ UNCHANGED <<rejected, exit_status>>
       ELSE /\ rejected' = TRUE
            /\ tool_pc' = OnValueError(tool).to
            /\ exit_status' = OnValueError(tool).status
    /\ UNCHANGED <<program, scan, test, tool, brand, model, passes, rounds, connects>>

\* `if model not in model_baudrate_table`, then the bus object is built.
CheckModel ==
    /\ tool_pc = "model"
    /\ IF ChecksModel(tool) /\ model \notin model_baudrate_table(brand)
       THEN /\ rejected' = TRUE
            /\ tool_pc' = OnInvalidModel(tool).to
            /\ exit_status' = OnInvalidModel(tool).status
       ELSE /\ tool_pc' = "connect"
            /\ UNCHANGED <<rejected, exit_status>>
    /\ UNCHANGED <<program, scan, test, tool, brand, model, passes, rounds, connects>>

\* motor_bus.connect(): it opens the port or raises; every tool catches the
\* error, prints it and ends the pass.
Connect ==
    /\ tool_pc = "connect"
    /\ connects' = connects + 1
    /\ \E opened \in BOOLEAN :
          IF opened
          THEN /\ tool_pc' = "operate"
               /\ UNCHANGED <<rounds, exit_status>>
          ELSE /\ rounds' = IF tool = "diagnose_follower_motors"
                            THEN rounds ELSE rounds + 1
               /\ tool_pc' = AfterPass(tool, rounds')
               /\ exit_status' = IF tool_pc' = "done" THEN "returned"
                                                      ELSE exit_status
    /\ UNCHANGED <<program, scan, test, tool, brand, model, passes, rejected>>

\* The reads and writes of the pass on the open bus, and the disconnect
\* that ends it.
Operate ==
    /\ tool_pc = "operate"
    /\ rounds' = IF tool = "diagnose_follower_motors" THEN rounds ELSE rounds + 1
    /\ tool_pc' = AfterPass(tool, rounds')
    /\ exit_status' = IF tool_pc' = "done" THEN "returned" ELSE exit_status
    /\ UNCHANGED <<program, scan, test, tool, brand, model, passes, connects, rejected>>

ToolNext ==
    \/ Input
    \/ GetMotorBusCls
    \/ CheckModel
    \/ Connect
    \/ Operate

\* The control program is not running while a tool is.
ControlIdle ==
    /\ mode = "single"
    /\ hz = 1
    /\ control_hz = 1
    /\ num_trajectories = DefaultNumTrajectories
    /\ follower_arms = <<6>>
    /\ observation_state = RestState
    /\ camera_frames = {"laptop", "phone"}
    /\ position_ranges = ShippedRanges
    /\ pc = "done"
    /\ exc = "none"
    /\ propagating = FALSE
    /\ robot = "None"
    /\ prompts = 0
    /\ is_connected = FALSE
    /\ disconnects = 0
    /\ trajectory_count = 0
    /\ choice = ""
    /\ cycles = 0
    /\ observation = NoObservation
    /\ response = NoActions
    /\ display_result = "none"
    /\ outcome = "Idle"
    /\ i = 0
    /\ j = 0
    /\ success = FALSE
    /\ num_motors = 0
    /\ step_duration = 0
    /\ positions_array = <<>>
    /\ last_error = "none"
    /\ elapsed = 0
    /\ sleep_time = 0
    /\ now = 0
    /\ step_start_time = 0
    /\ work = 0
    /\ late = 0
    /\ writeLog = <<>>
    /\ returns = {}
    /\ failure = NoFailure
    /\ requests = <<>>

ToolInit ==
    /\ tool \in Tools
    /\ \E arguments \in ToolArguments(tool) :
          /\ brand = arguments[1]
          /\ model = arguments[2]
    /\ passes \in PassCounts(tool)
    /\ tool_pc = EntryPoint(tool)
    /\ rounds = 0
    /\ connects = 0
    /\ rejected = FALSE
    /\ exit_status = "running"
    /\ NoScan
    /\ NoTest
    /\ ControlIdle

ToolSpec == ToolInit /\ [][ToolNext]_vars

\* ------------------------------------------------- scan_motors_on_port
\* One call of scan_motors_on_port by scan_robot, from motor_bus.connect()
\* to `return results`.  A bus call opens, reads or closes, or raises.
\* The baudrates tried are the values of the brand's series table.
BaudrateCounts == 1..MaxBaudrates

\* find_motor_indices(list(range(1, 10))): the ids that answer, ascending.
PresentIds ==
    {ids \in UNION {[1..n -> 1..MaxMotors] : n \in 0..MaxMotors} :
        \A a \in 1..Len(ids) : \A b \in 1..Len(ids) : a < b => ids[a] < ids[b]}

\* `if brand == "feetech"`: the offset a result carries; a failed read of
\* "Offset" is caught and stored as "Unknown".
Offsets(b) == IF b = "feetech" THEN {"value", "Unknown"} ELSE {"None"}

\* motor_bus.connect() inside the try block.
ScanConnect ==
    /\ scan_pc = "connect"
    /\ connects' = connects + 1
    /\ \/ /\ motor_bus_connected' = TRUE
          /\ scan_pc' = "baudrate"
          /\ tool_pc' = "operate"
       \/ /\ scan_pc' = "finally"
          /\ UNCHANGED <<motor_bus_connected, tool_pc>>
    /\ UNCHANGED <<program, test, tool, brand, model, passes, rounds, rejected,
                   exit_status, specific_connected, baudrates_left,
                   present_ids, results>>

\* `for baudrate_val in all_baudrates`: set_bus_baudrate and
\* find_motor_indices on the scanner bus; an error of either leaves the try
\* block.
ScanBaudrate ==
    /\ scan_pc = "baudrate"
    /\ IF baudrates_left = 0
       THEN /\ scan_pc' = "finally"
            /\ UNCHANGED <<baudrates_left, present_ids>>
       ELSE \/ /\ baudrates_left' = baudrates_left - 1
               /\ \E ids \in PresentIds :
                     /\ present_ids' = ids
                     /\ scan_pc' = IF ids = <<>> THEN "baudrate" ELSE "motor"
            \/ /\ scan_pc' = "finally"
               /\ UNCHANGED <<baudrates_left, present_ids>>
    /\ UNCHANGED <<program, test, tool, brand, model, passes, tool_pc, rounds,
                   connects, rejected, exit_status, motor_bus_connected,
                   specific_connected, results>>

\* Where the results entry is appended and the per-motor bus disconnected:
\* the last statements of the try block of one motor.
DisconnectsSpecific(read_ok) == read_ok

\* One iteration of `for motor_id in present_ids`: a bus of its own is
\* built and connected for the motor, its position is read, the result is
\* appended and the bus is disconnected; an exception anywhere in between
\* is caught and printed, and the loop goes on.
ScanMotor ==
    /\ scan_pc = "motor"
    /\ LET motor_id == Head(present_ids)
           this == <<baudrates_left, motor_id>>
       IN  \E connected \in BOOLEAN, read_ok \in BOOLEAN :
              /\ ~connected => ~read_ok
              /\ IF read_ok
                 THEN \E offset \in Offsets(brand) :
                         results' = Append(results,
                                       [id |-> motor_id,
                                        baudrate |-> baudrates_left,
                                        offset |-> offset])
                 ELSE UNCHANGED results
              /\ specific_connected' =
                    IF connected /\ ~DisconnectsSpecific(read_ok)
                    THEN specific_connected \cup {this}
                    ELSE specific_connected
    /\ present_ids' = Tail(present_ids)
    /\ scan_pc' = IF Tail(present_ids) = <<>> THEN "baudrate" ELSE "motor"
    /\ UNCHANGED <<program, test, tool, brand, model, passes, tool_pc, rounds,
                   connects, rejected, exit_status, motor_bus_connected,
                   baudrates_left>>

\* finally: `try: motor_bus.disconnect() except: pass`, then
\* `return results`.
ScanFinally ==
    /\ scan_pc = "finally"
    /\ motor_bus_connected' = FALSE
    /\ scan_pc' = "returned"
    /\ rounds' = rounds + 1
    /\ tool_pc' = "done"
    /\ exit_status' = "returned"
    /\ UNCHANGED <<program, test, tool, brand, model, passes, connects, rejected,
                   specific_connected, baudrates_left, present_ids, results>>

ScanNext ==
    \/ ScanConnect
    \/ ScanBaudrate
    \/ ScanMotor
    \/ ScanFinally

\* scan_robot with one port, a supported brand and a model of that brand:
\* the bus object is built and the try block is entered.
ScanInit ==
    /\ tool = "scan_robot"
    /\ brand \in SupportedBrands(tool)
    /\ model \in model_baudrate_table(brand)
    /\ passes = 1
    /\ tool_pc = "connect"
    /\ rounds = 0
    /\ connects = 0
    /\ rejected = FALSE
    /\ exit_status = "running"
    /\ scan_pc = "connect"
    /\ motor_bus_connected = FALSE
    /\ specific_connected = {}
    /\ baudrates_left \in BaudrateCounts
    /\ present_ids = <<>>
    /\ results = <<>>
    /\ NoTest
    /\ ControlIdle

ScanSpec == ScanInit /\ [][ScanNext]_vars

\* ------------------------------------------------ progressive_motor_test
\* One call of progressive_motor_test by progressive_tests, without Ctrl+C.
\* A bus call returns or raises an Exception.  `for attempt in range(1, 6)`.
ReadAttempts == 5

\* A bus call of round k in the log; the result is kept for connect and
\* set_bus_baudrate ("returned", "raised") and left open for the others.
BusCall(call, k, result) == [call |-> call, round |-> k, result |-> result]

\* `for num_motors in range(1, len(motor_ids) + 1)`: the next round, with
\* a bus object of its own, or the end of the function.
TestRound ==
    /\ test_pc = "round"
    /\ IF test_motors < motor_ids
       THEN /\ test_motors' = test_motors + 1
            /\ attempt' = 0
            /\ test_pc' = "connect"
            /\ UNCHANGED <<tool_pc, exit_status>>
       ELSE /\ test_pc' = "returned"
            /\ tool_pc' = "done"
            /\ exit_status' = "returned"
            /\ UNCHANGED <<test_motors, attempt>>
    /\ UNCHANGED <<program, scan, tool, brand, model, passes, rounds,
                   connects, rejected, motor_ids, positions, test_connected,
                   bus_calls>>

\* motor_bus.connect() and motor_bus.set_bus_baudrate(baudrate), the head
\* of the try block: an error of either goes to `except Exception` of the
\* setup and from there to the finally block.
TestConnect ==
    /\ test_pc = "connect"
    /\ connects' = connects + 1
    /\ \/ /\ bus_calls' =
                Append(bus_calls, BusCall("connect", test_motors, "raised"))
          /\ test_pc' = "finally"
          /\ UNCHANGED test_connected
       \/ /\ test_connected' = TRUE
          /\ \E result \in {"returned", "raised"} :
                /\ bus_calls' =
                      bus_calls \o
                      << BusCall("connect", test_motors, "returned"),
                         BusCall("set_bus_baudrate", test_motors, result) >>
                /\ test_pc' = IF result = "returned" THEN "read"
                                                     ELSE "finally"
    /\ UNCHANGED <<program, scan, tool, brand, model, passes, tool_pc, rounds,
                   rejected, exit_status, motor_ids, test_motors, attempt,
                   positions>>

\* Where the read loop goes after an attempt: `except Exception` of the
\* attempt prints and the loop continues.
AfterRead_StopsOnFailure(ok, made) ==
    IF ok /\ made < ReadAttempts THEN "read" ELSE "write"

AfterRead(ok, made) == IF made < ReadAttempts THEN "read" ELSE "write"

\* One attempt of the read loop: positions = motor_bus.read(...), or the
\* error is caught.
TestRead ==
    /\ test_pc = "read"
    /\ attempt' = attempt + 1
    /\ bus_calls' = Append(bus_calls, BusCall("read", test_motors, "any"))
    /\ \E ok \in BOOLEAN :
          /\ positions' = IF ok THEN test_motors ELSE positions
          /\ test_pc' = AfterRead(ok, attempt')
    /\ UNCHANGED <<program, scan, tool, brand, model, passes, tool_pc, rounds,
                   connects, rejected, exit_status, motor_ids, test_motors,
                   test_connected>>

\* motor_bus.write("Goal_Position", positions, motor_names) in its own try
\* block: with `positions` unbound the NameError is caught before the bus
\* is called; then time.sleep(1).
TestWrite ==
    /\ test_pc = "write"
    /\ bus_calls' = IF positions = 0
                    THEN bus_calls
                    ELSE Append(bus_calls,
                                BusCall("write", test_motors, "any"))
    /\ test_pc' = "finally"
    /\ UNCHANGED <<program, scan, tool, brand, model, passes, tool_pc, rounds,
                   connects, rejected, exit_status, motor_ids, test_motors,
                   attempt, positions, test_connected>>

\* finally: `try: motor_bus.disconnect() except Exception: print`, then
\* time.sleep(2) and the next round.
TestFinally ==
    /\ test_pc = "finally"
    /\ bus_calls' =
          Append(bus_calls, BusCall("disconnect", test_motors, "any"))
    /\ test_connected' = FALSE
    /\ rounds' = rounds + 1
    /\ test_pc' = "round"
    /\ UNCHANGED <<program, scan, tool, brand, model, passes, tool_pc,
                   connects, rejected, exit_status, motor_ids, test_motors,
                   attempt, positions>>

TestNext ==
    \/ TestRound
    \/ TestConnect
    \/ TestRead
    \/ TestWrite
    \/ TestFinally

\* progressive_tests with brand feetech: get_motor_bus_cls has returned and
\* the loop over the motors begins.
TestInit ==
    /\ tool = "progressive_tests"
    /\ brand = "feetech"
    /\ model = "sts3215"
    /\ motor_ids \in 1..MaxMotors
    /\ passes = motor_ids
    /\ tool_pc = "connect"
    /\ rounds = 0
    /\ connects = 0
    /\ rejected = FALSE
    /\ exit_status = "running"
    /\ test_pc = "round"
    /\ test_motors = 0
    /\ attempt = 0
    /\ positions = 0
    /\ test_connected = FALSE
    /\ bus_calls = <<>>
    /\ NoScan
    /\ ControlIdle

TestSpec == TestInit /\ [][TestNext]_vars

\* ------------------------------------------------------------------- claims
\* The response holds no trajectory: no 'actions' key, or zero steps.
NoTrajectory(r) == ~r.has_actions \/ Len(r.actions) = 0

\* Exceptions raised inside apply_robot_action.
ExecutorErrors ==
    {"KeyError", "IndexError", "WriteError", "RuntimeError",
     "ZeroDivisionError:step_duration"}

\* The writes of step k to arm a in the log.
WritesOf(k, a) ==
    {n \in 1..Len(writeLog) : writeLog[n].step = k /\ writeLog[n].arm = a}

\* C1: failure short-circuit.  Once a write of step k has failed, the log
\* of writes of that trajectory stays as it was at the failure: step k is
\* not retried and no later step is written; the failure mark is cleared
\* only by the next inference response.
FailureShortCircuit ==
    failure # NoFailure =>
        /\ Len(writeLog) = failure.writes
        /\ \A n \in 1..Len(writeLog) : writeLog[n].step <= failure.step

\* C1 witness: step 0 of a longer trajectory failed after some writes and
\* the executor has stopped.
FailureShortCircuitWitness ==
    /\ outcome = "StepFailed"
    /\ failure.step = 0
    /\ failure.writes > 0
    /\ Len(response.actions) > 1

\* C2 (as claimed): a step that counts as successful has written its
\* command to every entry of robot.follower_arms.
EveryArmWritten ==
    (pc = "pace" /\ success) =>
        \A a \in 1..Len(follower_arms) :
            follower_arms[a] > 0 => WritesOf(i, a) # {}

\* C3 (as claimed): the value returned to the caller tells Completed from
\* StepFailed: no two returns with the same value differ in outcome.
OutcomeReported ==
    \A p \in returns : \A q \in returns : p[1] = q[1] => p[2] = q[2]

\* C3 (amended): both terminal outcomes are returned, never raised, and the
\* value returned is None for both.
OutcomeNotReturned ==
    /\ \A p \in returns : p[1] = "None"
    /\ outcome \in {"Completed", "StepFailed"} =>
           <<"None", outcome>> \in returns

\* C3 witness: one trajectory completed and one failed, both returned None.
OutcomeNotReturnedWitness ==
    {<<"None", "Completed">>, <<"None", "StepFailed">>} \subseteq returns

\* C4: with no 'actions' key or zero steps the executor never runs: no
\* write, no exception from apply_robot_action, control is back in the mode
\* function.
EmptyResponseNoOp ==
    NoTrajectory(response) =>
        /\ writeLog = <<>>
        /\ outcome \in {"Idle", "Completed"}
        /\ pc \notin InTrajectory
        /\ exc \notin ExecutorErrors

\* C4 witness: after a response without trajectory the loop is at the
\* capture of its next cycle.
EmptyResponseNoOpWitness ==
    /\ pc = "capture"
    /\ cycles = 1
    /\ NoTrajectory(response)
    /\ exc = "none"

\* C5 (as claimed): a raw step shorter than 6 ends the trajectory in
\* StepFailed and no exception leaves the executor.
MappingErrorIsStepFailed ==
    \A k \in 1..Len(response.actions) :
        (MapRaises(response.actions[k]) /\ pc \in {"finally", "done"}) =>
            exc # "IndexError"

\* C6: an error raised by an actuator write never leaves the executor as an
\* exception; the step it was raised in is a failed step.
WriteErrorCaught ==
    /\ exc # "WriteError"
    /\ last_error = "WriteError" => (~success /\ failure # NoFailure)

\* C6 witness: a write raised and apply_single_action returned False.
WriteErrorCaughtWitness ==
    /\ pc = "pace"
    /\ last_error = "WriteError"
    /\ ~success
    /\ exc = "none"

\* C7: a trajectory that ended in StepFailed does not end the loop of the
\* mode function.  When the mode function is past its loop with the last
\* trajectory failed, the cause is something else: an interrupt or a fault
\* outside the executor (continuous mode), and in trajectory mode also the
\* count being reached or the user declining.
StepFailureKeepsLoop ==
    (outcome = "StepFailed" /\ pc \in {"except", "finally", "done"}) =>
        \/ mode = "single"
        \/ exc \in {"KeyboardInterrupt", "CaptureError", "TransportError",
                    "ZeroDivisionError:cycle_time"}
        \/ /\ mode = "trajectory"
           /\ exc = "none"
           /\ ~MoreTrajectories(trajectory_count)
              \/ choice \notin {"", "y", "Y"}

\* C7 witness: continuous mode has captured the observation of a second
\* cycle after the trajectory of the first one failed.
StepFailureKeepsLoopWitness ==
    /\ mode = "continuous"
    /\ outcome = "StepFailed"
    /\ cycles = 2
    /\ pc = "infer"

NonPositiveControlHzNoWrite ==
    control_hz <= 0 => writeLog = <<>>

\* C10 (as claimed): continuous mode with hz <= 0 performs no capture, no
\* inference request and no write.
NonPositiveHzRejected ==
    (mode = "continuous" /\ hz <= 0) =>
        /\ cycles = 0
        /\ writeLog = <<>>
        /\ pc \notin {"capture", "infer", "apply", "step", "write", "pace"}

\* C11: with --control-hz > 0, an arm that has motors and no failed write,
\* the steps of the trajectory are executed in index order 0, 1, ..., each
\* once (the writes of step k are the k-th block of the log), the executor
\* does not end in StepFailed, and when it has returned Completed exactly
\* N steps were executed.
StepsOnceInOrder ==
    (/\ control_hz > 0
     /\ failure = NoFailure
     /\ response.has_actions
     /\ follower_arms # <<>>
     /\ follower_arms[1] > 0)
    => LET N == Len(response.actions)
           W == Min(follower_arms[1], CommandLen)
       IN  /\ \A n \in 1..Len(writeLog) : writeLog[n].step = (n - 1) \div W
           /\ Len(writeLog) <= N * W
           /\ outcome # "StepFailed"
           /\ outcome = "Completed" => Len(writeLog) = N * W

StepsOnceInOrderWitness ==
    /\ control_hz > 0
    /\ failure = NoFailure
    /\ outcome = "Completed"
    /\ pc = "after"
    /\ Len(response.actions) = MaxSteps
    /\ i = MaxSteps - 1
    /\ Len(writeLog) = MaxSteps * CommandLen

\* C12: a control cycle is strictly sequential.  The n-th inference request
\* carries the n-th capture's observation (one request per cycle, never a
\* retry or an earlier observation); the executor runs and writes only
\* after the request of its own cycle; a capture or a request is made only
\* when no trajectory is running.
CycleSequential ==
    /\ \A n \in 1..Len(requests) : requests[n] = n
    /\ Len(requests) \in {cycles - 1, cycles} \cap Nat
    /\ observation.id = cycles
    /\ pc \in {"apply", "step", "write", "pace", "after"}
          => Len(requests) = cycles
    /\ \A n \in 1..Len(writeLog) :
          /\ writeLog[n].cycle <= Len(requests)
          /\ pc \in {"apply", "step", "write", "pace", "after"}
                => writeLog[n].cycle = cycles
    /\ pc \in {"loop", "capture", "infer"} => outcome # "Running"

CycleSequentialWitness ==
    /\ pc = "write"
    /\ cycles = MaxCycles
    /\ requests = [n \in 1..MaxCycles |-> n]
    /\ writeLog # <<>>
    /\ <<"None", "Completed">> \in returns

\* C13: a transport error is not caught by the control loop: it propagates
\* out of the mode function through its finally block, and no actuator
\* write is issued in the cycle in which it occurs.
TransportErrorEndsCycle ==
    exc = "TransportError"
    => /\ propagating
       /\ pc \in {"finally", "done"}
       /\ \A n \in 1..Len(writeLog) : writeLog[n].cycle # cycles

TransportErrorEndsCycleWitness ==
    /\ exc = "TransportError"
    /\ mode = "continuous"
    /\ cycles = MaxCycles
    /\ writeLog # <<>>
    /\ pc = "done"

\* The state right after the pacing of a step: elapsed, sleep_time, work
\* and step_start_time are those of the step just paced.
JustPaced ==
    \/ pc = "step" /\ i > 0
    \/ /\ pc = "after"
       /\ response.has_actions
       /\ Len(response.actions) > 0
       /\ outcome \in {"Completed", "StepFailed"}

\* C14: no catch-up.  With --control-hz > 0 the pacing sleep of a step is
\* max(0, 1/hz - its own work time), however late the earlier steps of the
\* trajectory ran: an overrun is never made up for by a shorter sleep.
NoCatchUp ==
    (JustPaced /\ control_hz > 0)
    => sleep_time = Max(0, step_duration - work)

NoCatchUpWitness ==
    /\ JustPaced
    /\ control_hz > 0
    /\ i > 0
    /\ late > 0
    /\ work = 0
    /\ sleep_time = step_duration

\* C15: pacing.  With --control-hz > 0 each step sleeps for
\* max(0, 1/hz - elapsed) and so lasts max(elapsed, 1/hz); the steps paced
\* so far have lasted one period each plus their overruns, so N steps of
\* zero work last N/hz.
Pacing ==
    (JustPaced /\ control_hz > 0)
    => LET paced == IF pc = "after" THEN i + 1 ELSE i
       IN  /\ step_duration * control_hz = TicksPerSecond
           /\ elapsed = work
           /\ sleep_time = Max(0, step_duration - elapsed)
           /\ now - step_start_time = Max(elapsed, step_duration)
           /\ now = paced * step_duration + late

PacingWitness ==
    /\ JustPaced
    /\ control_hz > 0
    /\ pc = "after"
    /\ outcome = "Completed"
    /\ i = MaxSteps - 1
    /\ late = 0
    /\ now = MaxSteps * step_duration

\* The raw step the command in positions_array was mapped from.
RawStep == response.actions[i + 1]

Mapped == pc = "write" /\ Len(positions_array) = CommandLen

\* C16: gripper index rule.  The gripper value of a raw step of length 7
\* or more is raw[6], of length exactly 6 raw[5] (0-based); command channel
\* 5 is that value denormalised through the gripper range [0, 50].
GripperIndexRule ==
    pc = "write"
    => LET raw == RawStep
           g == IF Len(raw) >= 7 THEN raw[7] ELSE raw[6]
           lo == GRIPPER_ACTION_RANGES.min[1]
           hi == GRIPPER_ACTION_RANGES.max[1]
       IN  /\ Len(raw) >= 6
           /\ Len(positions_array) = CommandLen
           /\ <<lo, hi>> = <<0, 50>>
           /\ positions_array[6] = (g + RawScale) * (hi - lo) + CmdScale * lo

GripperIndexRuleWitness ==
    /\ Mapped
    /\ Len(RawStep) >= 7
    /\ RawStep[6] # RawStep[7]
    /\ RawStep[5] # RawStep[7]
    /\ positions_array[6] = (RawStep[7] + RawScale) * 50

\* C17: for a raw step of length >= 6, command channel k of 0..4 is raw[k]
\* denormalised through channel k's own range,
\* 0.5 * (raw[k] + 1) * (max_k - min_k) + min_k: no channel is permuted.
JointChannelsOwnRange ==
    pc = "write"
    => \A k \in 1..5 :
          positions_array[k] =
              (RawStep[k] + RawScale)
                  * (JOINT_ACTION_RANGES.max[k] - JOINT_ACTION_RANGES.min[k])
              + CmdScale * JOINT_ACTION_RANGES.min[k]

JointChannelsOwnRangeWitness ==
    /\ Mapped
    /\ RawStep[1] = -RawScale
    /\ RawStep[2] = 1
    /\ RawStep[5] = RawScale + 1
    /\ positions_array[1] = CmdScale * JOINT_ACTION_RANGES.min[1]
    /\ positions_array[5] > CmdScale * JOINT_ACTION_RANGES.max[5]

\* The raw steps of length >= 7 that agree with v on indices 0..4 and on
\* the gripper index 6 (0-based).
Agreeing(v) ==
    { [c \in 1..L |-> IF c \in (1..5) \cup {7} THEN v[c] ELSE w[c]] :
        L \in {n \in MapStepLens : n >= 7},
        w \in [{n \in 1..8 : n \notin (1..5) \cup {7}} -> MapRawValues] }

\* C18: truncation.  Two raw steps of length >= 7 that agree on indices
\* 0..4 and on the gripper index give the same command: the other values
\* of the step do not influence it.
TrailingChannelsIgnored ==
    (pc = "write" /\ Len(RawStep) >= 7)
    => \A u \in Agreeing(RawStep) :
          map_pi0_to_so100_actions(u) = positions_array

TrailingChannelsIgnoredWitness ==
    /\ Mapped
    /\ Len(RawStep) = 8
    /\ RawStep[6] = 1
    /\ RawStep[8] = RawScale + 1
    /\ \E u \in Agreeing(RawStep) :
          /\ Len(u) = 7
          /\ u[6] # RawStep[6]
          /\ map_pi0_to_so100_actions(u) = positions_array

\* The log positions of the writes of step k to motor m of arm a.
WritesTo(k, a, m) == {n \in WritesOf(k, a) : writeLog[n].motor = m}

InUnitRange(f) == f[2] > 0 /\ -f[2] <= f[1] /\ f[1] <= f[2]

\* C20: range invariant.  Whatever the raw joint and gripper readings, of
\* any magnitude, every component of the normalised joint vector and of the
\* normalised gripper vector of a captured observation lies in [-1, 1].
NormalizedInRange ==
    observation.id > 0
    => /\ Len(observation.joint_position) = 5
       /\ Len(observation.gripper_position) = 1
       /\ \A k \in 1..5 : InUnitRange(observation.joint_position[k])
       /\ InUnitRange(observation.gripper_position[1])

NormalizedInRangeWitness ==
    /\ observation.id > 0
    /\ observation_state[2] = JOINT_POSITION_RANGES.max[2] + MaxMagnitude
    /\ observation_state[3] = JOINT_POSITION_RANGES.min[3] - MaxMagnitude
    /\ observation_state[4] = JOINT_POSITION_RANGES.min[4] + 1
    /\ observation_state[6] = GRIPPER_POSITION_RANGES.max[1] + MaxMagnitude
    /\ observation.joint_position[2][1] = observation.joint_position[2][2]
    /\ observation.joint_position[3][1] = -observation.joint_position[3][2]
    /\ observation.gripper_position[1] = <<50, 50>>

\* The raw reading and the position range of channel k of observation.state
\* (channel 6 is the gripper), and its normalised value in the observation.
RawOf(k) == observation_state[k]

RangeOf(k) ==
    IF k <= 5
    THEN <<JOINT_POSITION_RANGES.min[k], JOINT_POSITION_RANGES.max[k]>>
    ELSE <<GRIPPER_POSITION_RANGES.min[1], GRIPPER_POSITION_RANGES.max[1]>>

NormalizedOf(k) ==
    IF k <= 5 THEN observation.joint_position[k]
              ELSE observation.gripper_position[1]

\* C21: clamp.  In a captured observation a raw reading below its
\* channel's min is normalised to exactly -1 and a raw reading above its
\* channel's max to exactly +1.
ClampToUnit ==
    observation.id > 0
    => \A k \in 1..6 :
          /\ RawOf(k) < RangeOf(k)[1]
                => NormalizedOf(k)[1] = -NormalizedOf(k)[2]
          /\ RawOf(k) > RangeOf(k)[2]
                => NormalizedOf(k)[1] = NormalizedOf(k)[2]
          /\ NormalizedOf(k)[2] > 0

ClampToUnitWitness ==
    /\ observation.id > 0
    /\ RawOf(1) < RangeOf(1)[1]
    /\ RawOf(2) > RangeOf(2)[2]
    /\ RawOf(5) > RangeOf(5)[2]
    /\ RawOf(6) < RangeOf(6)[1]
    /\ NormalizedOf(1) = <<-2, 2>>
    /\ NormalizedOf(2) = <<201, 201>>
    /\ NormalizedOf(6) = <<-50, 50>>

\* The raw reading of channel k lies within the channel's position range.
InRange(k) == RangeOf(k)[1] <= RawOf(k) /\ RawOf(k) <= RangeOf(k)[2]

\* The fraction f equals the integer x.
FracEquals(f, x) == f[2] # 0 /\ f[1] = x * f[2]

\* C22: round trip.  The action ranges of motor_control equal the position
\* ranges of robot_interface channel by channel, and for every raw reading
\* within its range, denormalising the normalised value of a captured
\* observation gives the raw reading back.
RoundTrip ==
    /\ JOINT_ACTION_RANGES = JOINT_POSITION_RANGES
    /\ GRIPPER_ACTION_RANGES = GRIPPER_POSITION_RANGES
    /\ observation.id > 0
          => LET joints ==
                     denormalize_joint_fractions(observation.joint_position)
                 gripper ==
                     denormalize_gripper_fraction(
                         observation.gripper_position[1])
             IN  /\ \A k \in 1..5 :
                       InRange(k) => FracEquals(joints[k], RawOf(k))
                 /\ InRange(6) => FracEquals(gripper, RawOf(6))

RoundTripWitness ==
    /\ observation.id > 0
    /\ \A k \in 1..6 : InRange(k)
    /\ RawOf(2) = JOINT_POSITION_RANGES.min[2] + 1
    /\ RawOf(3) = JOINT_POSITION_RANGES.max[3]
    /\ RawOf(6) = GRIPPER_POSITION_RANGES.min[1] + 1
    /\ NormalizedOf(2) = <<-199, 201>>
    /\ FracEquals(
           denormalize_joint_fractions(observation.joint_position)[2], 0)

\* The fraction f equals p / q (q > 0).
FracIs(f, p, q) == f[2] > 0 /\ f[1] * q = p * f[2]

\* The observation captured from the raw state of the example is about to
\* be sent.
ExampleCaptured ==
    /\ pc = "infer"
    /\ observation.id > 0
    /\ observation_state = <<0, 100, -50, 0, 0, 25>>

\* C23 (as claimed): the raw state [0, 100, -50, 0, 0, 25] normalises to
\* the joint vector [-1, 0, -2/3, 1, 1] and the gripper [0].
ExampleAsClaimed ==
    ExampleCaptured
    => /\ FracIs(observation.joint_position[1], -1, 1)
       /\ FracIs(observation.joint_position[2], 0, 1)
       /\ FracIs(observation.joint_position[3], -2, 3)
       /\ FracIs(observation.joint_position[4], 1, 1)
       /\ FracIs(observation.joint_position[5], 1, 1)
       /\ FracIs(observation.gripper_position[1], 0, 1)

\* C23 (amended): the raw state [0, 100, -50, 0, 0, 25] normalises to the
\* joint vector [0, 1/201, 3/7, 19/21, 0] and the gripper [0].
ExampleNormalized ==
    ExampleCaptured
    => /\ Len(observation.joint_position) = 5
       /\ Len(observation.gripper_position) = 1
       /\ FracIs(observation.joint_position[1], 0, 1)
       /\ FracIs(observation.joint_position[2], 1, 201)
       /\ FracIs(observation.joint_position[3], 3, 7)
       /\ FracIs(observation.joint_position[4], 19, 21)
       /\ FracIs(observation.joint_position[5], 0, 1)
       /\ FracIs(observation.gripper_position[1], 0, 1)

ExampleNormalizedWitness ==
    /\ ExampleCaptured
    /\ pc = "infer"
    /\ observation.joint_position[3] = <<90, 210>>
    /\ observation.gripper_position = << <<0, 50>> >>

\* Some channel of the range tables has max = min.
ZeroWidth ==
    \/ \E k \in 1..5 :
          position_ranges.joint.max[k] = position_ranges.joint.min[k]
    \/ position_ranges.gripper.max[1] = position_ranges.gripper.min[1]

RoleCameras == {"laptop", "phone"}

ImageFields == {"exterior_image_1_left", "wrist_image_left"}

ZeroFrame == [shape |-> <<224, 224, 3>>, pixels |-> "zeros"]

\* C25: fixed shape.  Whatever cameras delivered a frame, a captured
\* observation has the same fields; each image field is 224 x 224 x 3, an
\* all-zero frame for each role camera that delivered nothing and a
\* camera's frame otherwise; the velocity vectors are zero and as long as
\* the joint and the gripper state.
FixedShape ==
    observation.id > 0
    => /\ DOMAIN observation =
              {"id", "joint_position", "gripper_position",
               "joint_velocity", "gripper_velocity", "prompt"}
              \cup ImageFields
       /\ \A f \in ImageFields :
             /\ observation[f].shape = <<224, 224, 3>>
             /\ observation[f] = ZeroFrame
                   \/ observation[f].pixels \in camera_frames \cap RoleCameras
       /\ Cardinality({f \in ImageFields : observation[f] = ZeroFrame})
             = Cardinality(RoleCameras \ camera_frames)
       /\ Len(observation.joint_velocity) = Len(observation.joint_position)
       /\ Len(observation.gripper_velocity)
             = Len(observation.gripper_position)
       /\ Len(observation.joint_velocity) = 5
       /\ Len(observation.gripper_velocity) = 1
       /\ \A k \in 1..5 : observation.joint_velocity[k][1] = 0
       /\ observation.gripper_velocity[1][1] = 0

FixedShapeWitness ==
    /\ observation.id > 0
    /\ pc = "infer"
    /\ camera_frames = {"top"}
    /\ observation.exterior_image_1_left = ZeroFrame
    /\ observation.wrist_image_left = ZeroFrame

Unsupported ==
    /\ tool \in Tools
    /\ \/ brand \notin SupportedBrands(tool)
       \/ model \notin model_baudrate_table(brand)

\* C27: an unsupported brand or model is fatal in every motor tool: no
\* connect() is attempted with it, and once the tool has found it the tool
\* has terminated and does not accept or perform a further operation.
\* The code does not do this: diagnose_follower_motors goes back to its
\* prompt, and progressive_tests connects with a model it never tested.
UnsupportedIsFatal ==
    Unsupported =>
        /\ connects = 0
        /\ rejected => tool_pc = "done"

\* The user has answered a prompt of trajectory_mode with something other
\* than y (in either case).
Declined == choice \notin {"", "y", "Y"}

\* C28: trajectory mode with N >= 0 runs at most N cycles, and exactly N
\* when the user confirmed every prompt and no exception ended the run;
\* every cycle whose trajectory returned is counted, whatever its outcome
\* was; with N = -1 the loop ends only when the user declines.
TrajectoryCount ==
    mode = "trajectory" =>
        /\ num_trajectories >= 0 =>
              /\ cycles <= num_trajectories
              /\ trajectory_count <= num_trajectories
        /\ trajectory_count \in {cycles - 1, cycles}
        /\ pc \in {"loop", "confirm"} => trajectory_count = cycles
        /\ (exc = "none" /\ pc \in {"finally", "done"})
              => trajectory_count = cycles
        /\ (num_trajectories >= 0 /\ pc = "done" /\ exc = "none" /\ ~Declined)
              => cycles = num_trajectories
        /\ (num_trajectories = -1 /\ pc \in {"finally", "done"} /\ exc = "none")
              => Declined

\* C28 witness: N = 2, both prompts confirmed: two cycles were run and
\* counted, one of them with a failed step, and the loop ended by itself.
TrajectoryCountWitness ==
    /\ mode = "trajectory"
    /\ num_trajectories = 2
    /\ pc = "done"
    /\ exc = "none"
    /\ choice = "y"
    /\ cycles = 2
    /\ trajectory_count = 2
    /\ <<"None", "StepFailed">> \in returns
    /\ <<"None", "Completed">> \in returns

\* C29: trajectory mode prompts between trajectories only.  A prompt is
\* open only after a trajectory has ended and while more are to come;
\* there is one prompt per trajectory but the last; a cycle after the first
\* has its own prompt, answered y; after any other answer control is out
\* of the loop, where nothing is captured, requested or written.
ConfirmBetweenTrajectories ==
    mode = "trajectory" =>
        /\ pc = "confirm" =>
              /\ trajectory_count >= 1
              /\ trajectory_count = cycles
              /\ outcome # "Running"
              /\ num_trajectories = -1 \/ trajectory_count < num_trajectories
        /\ prompts <= trajectory_count
        /\ num_trajectories >= 0 => prompts <= Max(num_trajectories - 1, 0)
        /\ cycles <= prompts + 1
        /\ (cycles >= 2 /\ cycles = prompts + 1) => choice \in {"y", "Y"}
        /\ Declined =>
              /\ pc \in {"finally", "done"}
              /\ cycles = prompts
              /\ Len(requests) <= prompts

\* C29 witness: with N = -1 the first prompt was answered Y and the second
\* one n: two cycles, two prompts, and the mode function has exited.
ConfirmBetweenTrajectoriesWitness ==
    /\ mode = "trajectory"
    /\ num_trajectories = -1
    /\ prompts = 2
    /\ cycles = 2
    /\ choice = "n"
    /\ pc = "done"
    /\ writeLog # <<>>

\* C30: on every exit path after the robot was connected, disconnect() is
\* called exactly once, and nothing is written after it.  The code does
\* not do this: Ctrl+C in the second initialize_robot sleeps after
\* connect() leaves the mode function's `robot` None, and its finally
\* block then does not disconnect.
DisconnectedOnExit ==
    /\ disconnects <= 1
    /\ disconnects > 0 => pc = "done"
    /\ (pc = "done" /\ (is_connected \/ disconnects > 0))
          => (disconnects = 1 /\ ~is_connected)

\* C31: a step is not atomic.  When the write to motor j of a step raises,
\* the log holds the step's command for motors 0..j-1 of the first arm, in
\* that order, and nothing for motor j and beyond; no write follows the
\* failed one, neither a restoring one nor one of a later step, and the
\* executor is past its write loop.
PartialStepKept ==
    failure # NoFailure =>
        /\ Len(writeLog) = failure.writes
        /\ pc \notin {"step", "write"}
        /\ (pc = "pace" /\ last_error = "WriteError") =>
              LET W == WritesPerArm(1)
                  base == failure.step * W
              IN  /\ failure.step = i
                  /\ j < W
                  /\ Len(writeLog) = base + j
                  /\ \A m \in 0..(j - 1) :
                        /\ writeLog[base + m + 1].step = i
                        /\ writeLog[base + m + 1].arm = 1
                        /\ writeLog[base + m + 1].motor = m
                        /\ writeLog[base + m + 1].value = positions_array[m + 1]
                  /\ \A m \in j..(follower_arms[1] - 1) : WritesTo(i, 1, m) = {}

\* C31 witness: in the second step the write to motor 2 of a 6-motor arm
\* raised after motors 0 and 1 had been written.
PartialStepKeptWitness ==
    /\ pc = "pace"
    /\ last_error = "WriteError"
    /\ follower_arms[1] = 6
    /\ i = 1
    /\ j = 2
    /\ Len(writeLog) = 8
    /\ writeLog[8].motor = 1

\* The configured range of command channel c (1..5 the joints, 6 the
\* gripper), and the raw policy value the mapper uses for it.
ActionRange(c) ==
    IF c <= 5
    THEN <<JOINT_ACTION_RANGES.min[c], JOINT_ACTION_RANGES.max[c]>>
    ELSE <<GRIPPER_ACTION_RANGES.min[1], GRIPPER_ACTION_RANGES.max[1]>>

RawUsed(c) == IF c <= 5 THEN RawStep[c] ELSE RawStep[GripperIndex(RawStep)]

\* The commanded value v lies in the configured range of channel c.
InActionRange(v, c) ==
    CmdScale * ActionRange(c)[1] <= v /\ v <= CmdScale * ActionRange(c)[2]

\* C32: the action mapper does not clamp.  The command of a channel lies in
\* the channel's configured range exactly when the raw value used for it
\* lies in [-1, 1], and the value written to a motor is the command of its
\* channel as mapped, in range or not.
DenormalizationUnclamped ==
    (pc \in {"write", "pace"} /\ Len(positions_array) = CommandLen) =>
        /\ \A c \in 1..CommandLen :
              InActionRange(positions_array[c], c)
                  <=> (-RawScale <= RawUsed(c) /\ RawUsed(c) <= RawScale)
        /\ (writeLog # <<>> /\ writeLog[Len(writeLog)].step = i) =>
              LET last == writeLog[Len(writeLog)]
              IN  /\ last.value = positions_array[last.motor + 1]
                  /\ InActionRange(last.value, last.motor + 1)
                        <=> (-RawScale <= RawUsed(last.motor + 1)
                             /\ RawUsed(last.motor + 1) <= RawScale)

\* C32 witness: a raw gripper value above 1 has been written to motor 5 as
\* a goal position above the maximum of the gripper range.
DenormalizationUnclampedWitness ==
    /\ pc = "pace"
    /\ success
    /\ writeLog # <<>>
    /\ writeLog[Len(writeLog)].step = i
    /\ writeLog[Len(writeLog)].motor = 5
    /\ RawUsed(6) > RawScale
    /\ writeLog[Len(writeLog)].value > CmdScale * GRIPPER_ACTION_RANGES.max[1]

\* C33: camera roles as the comment at robot_interface.py:117 states them.
\* In a captured observation the exterior image is the frame of camera
\* "laptop" whenever that camera delivered one, and the wrist image is the
\* frame of camera "phone" whenever that camera delivered one.
RolesAsCommented ==
    observation.id > 0
    => /\ "laptop" \in camera_frames
             => observation.exterior_image_1_left.pixels = "laptop"
       /\ "phone" \in camera_frames
             => observation.wrist_image_left.pixels = "phone"

\* C34: the failure check comes after pacing.  When apply_trajectory has
\* returned because a write of its step failed, that step's pacing sleep
\* max(0, step_duration - elapsed) was slept first: the return is at
\* step start + elapsed + sleep, no earlier than one step period after the
\* step started.
PacedBeforeStop ==
    (pc = "after" /\ last_error = "WriteError")
    => /\ outcome = "StepFailed"
       /\ ~success
       /\ sleep_time = Max(0, step_duration - elapsed)
       /\ now = step_start_time + elapsed + sleep_time
       /\ now >= step_start_time + step_duration

PacedBeforeStopWitness ==
    /\ pc = "after"
    /\ last_error = "WriteError"
    /\ outcome = "StepFailed"
    /\ step_duration > 0
    /\ sleep_time > 0
    /\ now = step_start_time + step_duration

\* C35: no follower arm, or a first follower arm without motors.  On a
\* non-empty trajectory the executor runs step 0 only: the step fails at
\* the motor-count test, the action mapper is not called (no command is
\* built and no IndexError can arise from a short action), nothing is
\* written, and after the step's pacing the executor stops with
\* StepFailed.
NoMotorsStopsAtStepZero ==
    (follower_arms = <<>> \/ follower_arms[1] = 0)
    => /\ writeLog = <<>>
       /\ positions_array = <<>>
       /\ pc # "write"
       /\ exc # "IndexError"
       /\ failure = NoFailure
       /\ pc \in {"step", "pace"} => (i = 0 /\ num_motors = 0)
       /\ pc = "pace" => (~success /\ last_error = "none")
       /\ (pc = "after" /\ response.has_actions /\ response.actions # <<>>)
             => (outcome = "StepFailed" /\ i = 0)

NoMotorsStopsAtStepZeroWitness ==
    /\ follower_arms = <<>>
    /\ pc = "after"
    /\ outcome = "StepFailed"
    /\ Len(response.actions) = 2
    /\ MapRaises(response.actions[1])
    /\ i = 0
    /\ writeLog = <<>>

\* C36: scan_motors_on_port leaves no bus connected.  When it has
\* returned, the scanner bus is disconnected and so is every per-motor bus
\* it connected, whatever raised on the way.
ScanLeavesNoBus ==
    scan_pc = "returned"
    => (~motor_bus_connected /\ specific_connected = {})

\* The calls of one kind that round k made on its bus, as positions of the
\* log.
CallsOf(call, k) ==
    {n \in 1..Len(bus_calls) :
        bus_calls[n].call = call /\ bus_calls[n].round = k}

\* Round k is over: its finally block has run.
RoundOver(k) ==
    \/ k < test_motors
    \/ k = test_motors /\ test_pc \in {"round", "returned"}

\* Round k's connect() returned; its connect() and its set_bus_baudrate()
\* both returned.
Opened(k) ==
    \E n \in 1..Len(bus_calls) :
        bus_calls[n] = BusCall("connect", k, "returned")

SetUp(k) ==
    \E n \in 1..Len(bus_calls) :
        bus_calls[n] = BusCall("set_bus_baudrate", k, "returned")

\* The rounds of progressive_motor_test, with Ready(k) for "round k was
\* connected": rounds 1..n run in increasing order, each connects once,
\* a round that was connected makes all its read attempts, and each round
\* calls disconnect once, after its other calls and before the next round
\* connects.
RoundsInOrder(Ready(_)) ==
    /\ test_motors <= motor_ids
    /\ test_pc = "returned" => test_motors = motor_ids
    /\ \A a \in 1..Len(bus_calls) : \A b \in 1..Len(bus_calls) :
          a < b => bus_calls[a].round <= bus_calls[b].round
    /\ \A n \in 1..Len(bus_calls) : bus_calls[n].round \in 1..test_motors
    /\ \A k \in 1..test_motors :
          /\ Cardinality(CallsOf("disconnect", k))
                = IF RoundOver(k) THEN 1 ELSE 0
          /\ Cardinality(CallsOf("connect", k)) <= 1
          /\ Cardinality(CallsOf("write", k)) <= 1
          /\ \A d \in CallsOf("disconnect", k) :
                \A n \in 1..Len(bus_calls) : bus_calls[n].round = k => n <= d
          /\ RoundOver(k) =>
                /\ Cardinality(CallsOf("connect", k)) = 1
                /\ Ready(k) =>
                      Cardinality(CallsOf("read", k)) = ReadAttempts

\* C37 (as claimed): one round per k = 1..n in increasing order; once
\* connect() has returned, the round attempts 5 reads whatever fails, and
\* each round attempts disconnect exactly once, before the next round
\* connects.
ReadsOnceConnected == RoundsInOrder(Opened)

\* C37 (amended): one round per k = 1..n in increasing order; once
\* connect() and set_bus_baudrate() have both returned, the round attempts
\* 5 reads whatever read fails, and a round whose setup failed attempts no
\* read and no write; each round attempts disconnect exactly once, after
\* its other bus calls and before the next round connects.
ReadsOnceSetUp ==
    /\ RoundsInOrder(SetUp)
    /\ \A k \in 1..test_motors :
          ~SetUp(k) => (CallsOf("read", k) = {} /\ CallsOf("write", k) = {})

\* C37 witness: two rounds are over; every read of round 2 failed
\* (`positions` is still the one of round 1), yet round 2 made its 5
\* attempts, wrote and disconnected once.
ReadsOnceSetUpWitness ==
    /\ test_pc = "returned"
    /\ motor_ids = 2
    /\ positions = 1
    /\ SetUp(2)
    /\ Cardinality(CallsOf("read", 2)) = ReadAttempts
    /\ Cardinality(CallsOf("write", 2)) = 1
    /\ Cardinality(CallsOf("disconnect", 2)) = 1
    /\ Cardinality(CallsOf("disconnect", 1)) = 1

====
